---- MODULE Spec2Model ----
(***************************************************************************)
(* Website monitoring and blocking simulation agent (python_agent/).       *)
(*                                                                         *)
(* The model follows the modular agent: database_manager.py (connection    *)
(* pool and execute_query), website_generator.py (blocked-sites cache),    *)
(* monitoring_agent.py (per-visit task, statistics, round driver).         *)
(*                                                                         *)
(* Threads are records kept in a bag: the main thread, the tasks the round *)
(* driver submits to its ThreadPoolExecutor, and (in SpecPool) anonymous   *)
(* callers of execute_query.  A statement that reads or writes state       *)
(* shared between threads is one step; statements that touch only the      *)
(* thread's own locals are folded into the step before them.  The agent    *)
(* takes no lock anywhere, so every read-modify-write of a shared field    *)
(* (stats[k] += 1, cache_expiry = now() + ttl) is a read step followed by  *)
(* a write step.                                                           *)
(*                                                                         *)
(* Time is a discrete clock.  One tick is five minutes: the cache's time   *)
(* to live and the interval between two periodic reports are one tick      *)
(* each.  The per-task timeout (10 seconds) is far below a tick and is an  *)
(* event of its own.                                                       *)
(***************************************************************************)
EXTENDS Integers, Sequences, FiniteSets, Bags, TLC

\* ---------------------------------------------------------------- bounds
NumUsers == 2      \* config: simulation.num_users
MaxRuntime == 2    \* config: simulation.max_runtime_hours, in ticks
MaxTime == 3       \* the clock stops here
MaxRounds == 2     \* rounds of a run in SpecStats
TimedRounds == 1   \* rounds of a run in Spec
NumCallers == 11   \* threads calling execute_query in SpecPool
BatchVisits == 2   \* num_visits of run_single_batch
MaxRuns == 2       \* calls of run_continuous_simulation on one agent

\* ------------------------------------------------------ program constants
PoolSize == 10       \* pool_size=10
TTL == 1             \* timedelta(minutes=5), the cache's time to live
StatsInterval == 1   \* timedelta(minutes=5), between periodic reports

Users == 1..NumUsers
Sites == {"a.com"}
\* rows of the blocked_sites relation, as the dictionary cursor returns them
Row(s) == [site_name |-> s]
AllRows == {Row(s) : s \in Sites}

VARIABLES
    now,                  \* datetime.now(), in ticks
    threads,              \* bag of thread records
    pool_free,            \* connections idle in the pool's queue
    blocked_sites,        \* store: rows of the blocked_sites relation
    sites_visited,        \* store: rows inserted into sites_visited, per status
    blocked_sites_cache,  \* WebsiteGenerator.blocked_sites_cache
    cache_expiry,         \* WebsiteGenerator.cache_expiry
    stats,                \* MonitoringAgent.stats
    is_running,           \* MonitoringAgent.is_running
    driver,               \* locals of run_continuous_simulation and its executor
    reports,              \* what _report_statistics last printed, and how often
    loaded                \* history: the snapshot last put in the cache, and
                          \* the refresh that last returned successfully

vars == <<now, threads, pool_free, blocked_sites, sites_visited,
          blocked_sites_cache, cache_expiry, stats, is_running, driver,
          reports, loaded>>

\* ------------------------------------------------------------- threads
\* kind: "main" | "task" | "caller" | "reader".  user, rnd: the task's user and round.
\* query: the statement execute_query runs ("select" fetches, "insert" commits).
\* conn: holds a pooled connection.  err: the exception execute_query raised.
\* txn: what execute_query did with the transaction ("committed", "rolledback").
\* waited: time advanced while get_connection was pending (history).
\* wrote: this update_blocked_sites_cache call assigned the cache or its expiry
\* (history).  refreshed: how the refresh this thread last ran ended (history).
\* expect: what the snapshot last loaded says of the site (history).
\* due, fresh: what the refresh that last succeeded read of the site, and
\* whether the answer was given within TTL of that refresh (history).
\* expired: is_site_blocked found now > cache_expiry (history).  queries: the
\* store queries this is_site_blocked call has issued (history).
\* abandoned: the round driver's wait for this task has timed out (history).
\* spans: the task was running when a wait of the driver on an earlier future
\* of its round timed out (history, kept until the task's own future is
\* collected).
\* overdue: the task has been running for more than the per-task timeout
\* (history).
\* early_stop: stop() was called on the agent before its run began (history,
\* main thread).
\* ret: where the main thread's update_blocked_sites_cache call returns to.
Thread(kind, user, rnd, pc) ==
    [kind |-> kind, user |-> user, rnd |-> rnd, pc |-> pc, query |-> "none",
     conn |-> FALSE, err |-> "none", results |-> {}, site |-> "none",
     is_blocked |-> FALSE, tmp |-> 0, txn |-> "none", waited |-> FALSE,
     wrote |-> FALSE, refreshed |-> "none", expect |-> FALSE, due |-> FALSE,
     fresh |-> FALSE, expired |-> FALSE, queries |-> 0, abandoned |-> FALSE,
     spans |-> FALSE, overdue |-> FALSE, early_stop |-> FALSE,
     ret |-> "none"]

MainThread == Thread("main", 0, 0, "created")

AllThreads == BagToSet(threads)

Replace(r, s) == threads' = (threads (-) SetToBag({r})) (+) SetToBag({s})

Remove(r) == threads' = threads (-) SetToBag({r})

\* number of threads (with multiplicity) among the records of S
RECURSIVE Copies(_)
Copies(S) ==
    IF S = {} THEN 0
    ELSE LET r == CHOOSE x \in S : TRUE
         IN CopiesIn(r, threads) + Copies(S \ {r})

Borrowed == PoolSize - pool_free

\* ------------------------------------------------------------ the clock
\* Time passes.  A thread still inside get_connection has now waited.
MarkWaited(r) == IF r.pc = "eq_acquire" THEN [r EXCEPT !.waited = TRUE] ELSE r

RECURSIVE MapBag(_, _)
MapBag(S, B) ==
    IF S = {} THEN EmptyBag
    ELSE LET r == CHOOSE x \in S : TRUE
             m == MarkWaited(r)
             rest == MapBag(S \ {r}, B)
         IN rest (+) [x \in {m} |-> CopiesIn(r, B)]

Tick ==
    /\ now < MaxTime
    /\ now' = now + 1
    /\ threads' = MapBag(BagToSet(threads), threads)
    /\ UNCHANGED <<pool_free, blocked_sites, sites_visited, blocked_sites_cache,
                   cache_expiry, stats, is_running, driver, reports, loaded>>

\* ------------------------------------------------ database_manager.py
\* Where execute_query returns to: the anonymous caller, the line after the
\* SELECT in update_blocked_sites_cache, or the line after the INSERT in
\* log_website_visit.
AfterQuery(r) ==
    IF r.kind = "caller" THEN "caller_idle"
    ELSE IF r.query = "select" THEN "upd_install" ELSE "log_after"

\* The history of the last is_site_blocked call is kept for one state only.
Forget(r) == [r EXCEPT !.expect = FALSE, !.due = FALSE, !.fresh = FALSE,
                       !.refreshed = IF r.query = "insert" THEN "none" ELSE @,
                       !.expired = IF r.query = "insert" THEN FALSE ELSE @,
                       !.queries = IF r.query = "insert" THEN 0 ELSE @]

\* get_connection without the pool's bound: hands out a connection always.
GetConnectionUnbounded(r) ==
    /\ pool_free' = pool_free - 1
    /\ Replace(r, [Forget(r) EXCEPT !.conn = TRUE, !.pc = "eq_execute",
                                    !.waited = FALSE])

\* get_connection -> MySQLConnectionPool.get_connection(), which takes a
\* connection from the pool's queue without blocking and raises PoolError
\* (an Error) when the queue is empty.  execute_query's handler then finds
\* connection = None, logs and re-raises; its finally has nothing to close.
GetConnection(r) ==
    IF pool_free > 0
    THEN /\ pool_free' = pool_free - 1
         /\ Replace(r, [Forget(r) EXCEPT !.conn = TRUE, !.pc = "eq_execute",
                                          !.waited = FALSE])
    ELSE /\ pool_free' = pool_free
         /\ Replace(r, [Forget(r) EXCEPT !.err = "PoolError",
                                          !.pc = AfterQuery(r)])

EqAcquire(r) ==
    /\ r.pc = "eq_acquire"
    /\ GetConnection(r)
    /\ UNCHANGED <<now, blocked_sites, sites_visited, blocked_sites_cache,
                   cache_expiry, stats, is_running, driver, reports, loaded>>

\* a status looked up again in the cache when it is used
StatusNow(r) == IF r.site \in blocked_sites_cache THEN "blocked" ELSE "allowed"

Status(r) == IF r.is_blocked THEN "blocked" ELSE "allowed"

\* cursor(), execute(), then fetchall() (fetch) or commit(); on an Error
\* rollback().  The statement takes effect in the store when it succeeds.
EqExecute(r) ==
    /\ r.pc = "eq_execute"
    /\ \E ok \in BOOLEAN :
         IF ~ok
         THEN /\ Replace(r, [r EXCEPT !.err = "QueryError", !.txn = "rolledback",
                                       !.site = IF r.query = "insert"
                                                THEN "none" ELSE @,
                                       !.pc = "eq_finally"])
              /\ UNCHANGED sites_visited
         ELSE IF r.query = "select"
         THEN /\ Replace(r, [r EXCEPT !.results = blocked_sites,
                                       !.pc = "eq_finally"])
              /\ UNCHANGED sites_visited
         ELSE /\ Replace(r, [r EXCEPT !.txn = "committed", !.site = "none",
                                       !.pc = "eq_finally"])
              /\ sites_visited' =
                    [sites_visited EXCEPT ![Status(r)] = @ + 1]
    /\ UNCHANGED <<now, pool_free, blocked_sites, blocked_sites_cache,
                   cache_expiry, stats, is_running, driver, reports, loaded>>

\* a finally that closes the connection only when no exception is in flight
CloseOnSuccessOnly(r) ==
    /\ pool_free' = IF r.err = "none" THEN pool_free + 1 ELSE pool_free
    /\ Replace(r, [r EXCEPT !.conn = (r.err # "none"), !.txn = "none",
                             !.pc = AfterQuery(r)])

\* finally: cursor.close(); connection.close() gives the pooled connection
\* back to the pool's queue.  Then the result is returned or the Error
\* propagates to the caller.
CloseConnection(r) ==
    /\ pool_free' = pool_free + 1
    /\ Replace(r, [r EXCEPT !.conn = FALSE, !.txn = "none", !.pc = AfterQuery(r)])

\* an execute_query that keeps the connection of a SELECT out of the pool
EqFinallyKeepsSelect(r) ==
    /\ r.pc = "eq_finally"
    /\ IF r.query = "select"
       THEN /\ pool_free' = pool_free
            /\ Replace(r, [r EXCEPT !.conn = FALSE, !.txn = "none",
                                     !.pc = AfterQuery(r)])
       ELSE CloseConnection(r)
    /\ UNCHANGED <<now, blocked_sites, sites_visited, blocked_sites_cache,
                   cache_expiry, stats, is_running, driver, reports, loaded>>

EqFinally(r) ==
    /\ r.pc = "eq_finally"
    /\ CloseConnection(r)
    /\ UNCHANGED <<now, blocked_sites, sites_visited, blocked_sites_cache,
                   cache_expiry, stats, is_running, driver, reports, loaded>>

\* ----------------------------------------------- website_generator.py
\* Where update_blocked_sites_cache returns to: run_continuous_simulation or
\* run_single_batch (main thread), or is_site_blocked (a task).
AfterUpdate(r) == IF r.kind = "main" THEN r.ret ELSE "isb_member"

\* Entering update_blocked_sites_cache: the SELECT is issued.
CallUpdate(r) ==
    [r EXCEPT !.pc = "eq_acquire", !.query = "select", !.err = "none",
              !.results = {}, !.wrote = FALSE, !.refreshed = "none",
              !.waited = FALSE, !.queries = @ + 1]

\* {site['site_name'] for site in results}
SiteNames(rows) == {row.site_name : row \in rows}

\* an except handler that also drops the snapshot
UpdateFailedClears(r) ==
    /\ blocked_sites_cache' = {}
    /\ cache_expiry' = cache_expiry
    /\ Replace(r, [r EXCEPT !.err = "none", !.results = {}, !.query = "none",
                            !.refreshed = "failed", !.waited = FALSE,
                            !.pc = AfterUpdate(r)])

\* an except handler that backs off: the next refresh is due a TTL from now
UpdateFailedBacksOff(r) ==
    /\ blocked_sites_cache' = blocked_sites_cache
    /\ cache_expiry' = now + TTL
    /\ Replace(r, [r EXCEPT !.err = "none", !.results = {}, !.query = "none",
                            !.refreshed = "failed", !.waited = FALSE,
                            !.pc = AfterUpdate(r)])

\* except Exception: the failure is logged and absorbed; nothing is assigned.
UpdateFailed(r) ==
    /\ UNCHANGED <<blocked_sites_cache, cache_expiry>>
    /\ Replace(r, [r EXCEPT !.err = "none", !.results = {}, !.query = "none",
                            !.refreshed = "failed", !.waited = FALSE,
                            !.pc = AfterUpdate(r)])

UpdExcept(r) ==
    /\ r.pc = "upd_install"
    /\ r.err # "none"
    /\ UpdateFailed(r)
    /\ UNCHANGED <<now, pool_free, blocked_sites, sites_visited, stats,
                   is_running, driver, reports, loaded>>

\* self.blocked_sites_cache = {...}: the snapshot is replaced wholesale.
UpdInstall(r) ==
    /\ r.pc = "upd_install"
    /\ r.err = "none"
    /\ blocked_sites_cache' = SiteNames(r.results)
    /\ loaded' = [loaded EXCEPT !.snapshot = {row.site_name : row \in r.results},
                                !.any = TRUE]
    /\ Replace(r, [r EXCEPT !.wrote = TRUE, !.pc = "upd_expiry_eval"])
    /\ UNCHANGED <<now, pool_free, blocked_sites, sites_visited, cache_expiry,
                   stats, is_running, driver, reports>>

\* datetime.now() + timedelta(minutes=5) is evaluated ...
UpdExpiryEval(r) ==
    /\ r.pc = "upd_expiry_eval"
    /\ Replace(r, [r EXCEPT !.tmp = now + TTL, !.pc = "upd_expiry_store"])
    /\ UNCHANGED <<now, pool_free, blocked_sites, sites_visited,
                   blocked_sites_cache, cache_expiry, stats, is_running, driver,
                   reports, loaded>>

\* ... and then stored in self.cache_expiry; the call returns.
UpdExpiryStore(r) ==
    /\ r.pc = "upd_expiry_store"
    /\ cache_expiry' = r.tmp
    /\ loaded' = [loaded EXCEPT !.done = {row.site_name : row \in r.results},
                                !.at = r.tmp - TTL, !.ok = TRUE]
    /\ Replace(r, [r EXCEPT !.tmp = 0, !.query = "none", !.results = {},
                            !.refreshed = "ok", !.pc = AfterUpdate(r)])
    /\ UNCHANGED <<now, pool_free, blocked_sites, sites_visited,
                   blocked_sites_cache, stats, is_running, driver, reports>>

\* an expiry test that already refreshes at now = cache_expiry
IsbCheckEager(r) ==
    /\ r.pc = "isb_check"
    /\ IF now >= cache_expiry
       THEN Replace(r, CallUpdate([r EXCEPT !.expired = now > cache_expiry]))
       ELSE Replace(r, [r EXCEPT !.pc = "isb_member"])
    /\ UNCHANGED <<now, pool_free, blocked_sites, sites_visited,
                   blocked_sites_cache, cache_expiry, stats, is_running, driver,
                   reports, loaded>>

\* is_site_blocked: if datetime.now() > self.cache_expiry, refresh first.
IsbCheck(r) ==
    /\ r.pc = "isb_check"
    /\ IF now > cache_expiry
       THEN Replace(r, CallUpdate([r EXCEPT !.expired = TRUE]))
       ELSE Replace(r, [r EXCEPT !.pc = "isb_member"])
    /\ UNCHANGED <<now, pool_free, blocked_sites, sites_visited,
                   blocked_sites_cache, cache_expiry, stats, is_running, driver,
                   reports, loaded>>

\* return site_name in self.blocked_sites_cache
Member(site) == site \in blocked_sites_cache

\* is_site_blocked answers; simulate_user_session derives the status and
\* calls log_website_visit, which issues the INSERT.  (A reader only asks.)
IsbMember(r) ==
    /\ r.pc = "isb_member"
    /\ Replace(r, [r EXCEPT !.is_blocked = Member(r.site),
                            !.expect = (r.site \in loaded.snapshot),
                            !.due = (r.site \in loaded.done),
                            !.fresh = (loaded.ok /\ now <= loaded.at + TTL),
                            !.wrote = FALSE,
                            !.pc = IF r.kind = "reader" THEN "reader_idle"
                                   ELSE "eq_acquire",
                            !.query = IF r.kind = "reader" THEN "none"
                                      ELSE "insert",
                            !.waited = FALSE])
    /\ UNCHANGED <<now, pool_free, blocked_sites, sites_visited,
                   blocked_sites_cache, cache_expiry, stats, is_running, driver,
                   reports, loaded>>

\* The store's blocked list is edited (by the dashboard, outside the agent).
StoreEdit ==
    /\ \E row \in AllRows :
         blocked_sites' = IF row \in blocked_sites THEN blocked_sites \ {row}
                          ELSE blocked_sites \cup {row}
    /\ UNCHANGED <<now, threads, pool_free, sites_visited, blocked_sites_cache,
                   cache_expiry, stats, is_running, driver, reports, loaded>>

\* ------------------------------------------------ monitoring_agent.py
Main == CHOOSE r \in AllThreads : r.kind = "main"

Tasks == {r \in AllThreads : r.kind = "task"}

\* tasks a worker thread of the executor is running
Executing == {t \in Tasks : t.pc \notin {"queued", "done"}}

\* the driver still holds the task's future and has not yet waited on it
Awaited(t) ==
    /\ t.rnd = driver.round
    /\ \/ Main.pc = "rc_submit"
       \/ /\ Main.pc = "rc_wait"
          /\ \E i \in driver.idx..Len(driver.futures) : driver.futures[i] = t.user

\* The task's function returns: its future is done.  A future nobody will
\* look at again is dropped from the model.
Finished(t) ==
    [Thread("task", t.user, t.rnd, "done") EXCEPT !.overdue = t.overdue]

Finish(t) ==
    IF Awaited(t) THEN Replace(t, Finished(t)) ELSE Remove(t)

\* simulate_user_session without its is_running test
TaskStartAlways(t) ==
    /\ t.kind = "task"
    /\ t.pc = "queued"
    /\ Cardinality(Executing) < NumUsers
    /\ \A o \in Tasks : o.pc = "queued" =>
          (o.rnd > t.rnd \/ (o.rnd = t.rnd /\ o.user >= t.user))
    /\ \E site \in Sites :
          Replace(t, [t EXCEPT !.site = site, !.pc = "isb_check"])
    /\ UNCHANGED <<now, pool_free, blocked_sites, sites_visited,
                   blocked_sites_cache, cache_expiry, stats, is_running, driver,
                   reports, loaded>>

\* A worker thread takes the task from the executor's queue (at most
\* max_workers = len(user_simulators) run at once, oldest first) and runs
\* simulate_user_session: return at once unless is_running, else generate a
\* visit and call is_site_blocked.
TaskStart(t) ==
    /\ t.kind = "task"
    /\ t.pc = "queued"
    /\ Cardinality(Executing) < NumUsers
    /\ \A o \in Tasks : o.pc = "queued" =>
          (o.rnd > t.rnd \/ (o.rnd = t.rnd /\ o.user >= t.user))
    /\ IF ~is_running
       THEN Finish(t)
       ELSE \E site \in Sites :
              Replace(t, [t EXCEPT !.site = site, !.pc = "isb_check"])
    /\ UNCHANGED <<now, pool_free, blocked_sites, sites_visited,
                   blocked_sites_cache, cache_expiry, stats, is_running, driver,
                   reports, loaded>>

\* a log_website_visit that counts the visit whether or not the INSERT worked
LogTotalReadAlways(t) ==
    /\ t.pc = "log_after"
    /\ Replace(t, [t EXCEPT !.tmp = stats.total_visits, !.pc = "st_total_wr"])
    /\ UNCHANGED <<now, pool_free, blocked_sites, sites_visited,
                   blocked_sites_cache, cache_expiry, stats, is_running, driver,
                   reports, loaded>>

\* log_website_visit after the INSERT returned: self.stats['total_visits'] += 1
\* reads the counter ...
LogTotalRead(t) ==
    /\ t.pc = "log_after"
    /\ t.err = "none"
    /\ Replace(t, [t EXCEPT !.tmp = stats.total_visits, !.pc = "st_total_wr"])
    /\ UNCHANGED <<now, pool_free, blocked_sites, sites_visited,
                   blocked_sites_cache, cache_expiry, stats, is_running, driver,
                   reports, loaded>>

\* ... and stores it incremented.
LogTotalWrite(t) ==
    /\ t.pc = "st_total_wr"
    /\ stats' = [stats EXCEPT !.total_visits = t.tmp + 1]
    /\ Replace(t, [t EXCEPT !.tmp = 0, !.pc = "st_kind_rd"])
    /\ UNCHANGED <<now, pool_free, blocked_sites, sites_visited,
                   blocked_sites_cache, cache_expiry, is_running, driver,
                   reports, loaded>>

\* the counter log_website_visit increments for a status
KindCounter(status) ==
    IF status = "blocked" THEN "blocked_visits" ELSE "allowed_visits"

LogKindRead(t) ==
    /\ t.pc = "st_kind_rd"
    /\ Replace(t, [t EXCEPT !.tmp = stats[KindCounter(Status(t))],
                            !.pc = "st_kind_wr"])
    /\ UNCHANGED <<now, pool_free, blocked_sites, sites_visited,
                   blocked_sites_cache, cache_expiry, stats, is_running, driver,
                   reports, loaded>>

\* The last statement of the task on the success path.
LogKindWrite(t) ==
    /\ t.pc = "st_kind_wr"
    /\ stats' = [stats EXCEPT ![KindCounter(Status(t))] = t.tmp + 1]
    /\ Finish(t)
    /\ UNCHANGED <<now, pool_free, blocked_sites, sites_visited,
                   blocked_sites_cache, cache_expiry, is_running, driver,
                   reports, loaded>>

\* except Exception in log_website_visit: self.stats['errors'] += 1
LogErrRead(t) ==
    /\ t.pc = "log_after"
    /\ t.err # "none"
    /\ Replace(t, [t EXCEPT !.tmp = stats.errors, !.pc = "st_err_wr"])
    /\ UNCHANGED <<now, pool_free, blocked_sites, sites_visited,
                   blocked_sites_cache, cache_expiry, stats, is_running, driver,
                   reports, loaded>>

LogErrWrite(t) ==
    /\ t.pc = "st_err_wr"
    /\ stats' = [stats EXCEPT !.errors = t.tmp + 1]
    /\ Finish(t)
    /\ UNCHANGED <<now, pool_free, blocked_sites, sites_visited,
                   blocked_sites_cache, cache_expiry, is_running, driver,
                   reports, loaded>>

\* run_continuous_simulation: is_running = True, then the first refresh.
RunContinuous(m) ==
    /\ m.kind = "main"
    /\ m.pc = "created"
    /\ is_running' = TRUE
    /\ Replace(m, CallUpdate([m EXCEPT !.ret = "rc_start"]))
    /\ UNCHANGED <<now, pool_free, blocked_sites, sites_visited,
                   blocked_sites_cache, cache_expiry, stats, driver, reports,
                   loaded>>

\* start_time = last_stats_report = datetime.now(); the executor is created.
RcStart(m) ==
    /\ m.pc = "rc_start"
    /\ driver' = [driver EXCEPT !.start_time = now, !.last_stats_report = now]
    /\ Replace(m, [m EXCEPT !.refreshed = "none", !.wrote = FALSE,
                            !.queries = 0, !.ret = "none",
                            !.pc = "rc_loop"])
    /\ UNCHANGED <<now, pool_free, blocked_sites, sites_visited,
                   blocked_sites_cache, cache_expiry, stats, is_running, reports,
                   loaded>>

\* while self.is_running and (now - start_time) < max_runtime
RcLoop(m) ==
    /\ m.pc = "rc_loop"
    /\ IF is_running /\ now - driver.start_time < MaxRuntime
       THEN /\ driver' = [driver EXCEPT !.round = @ + 1, !.futures = <<>>,
                                        !.idx = 1]
            /\ Replace(m, [m EXCEPT !.pc = "rc_submit"])
       ELSE /\ driver' = [driver EXCEPT !.futures = <<>>, !.idx = 0]
            /\ Replace(m, [m EXCEPT !.pc = "rc_shutdown"])
    /\ UNCHANGED <<now, pool_free, blocked_sites, sites_visited,
                   blocked_sites_cache, cache_expiry, stats, is_running, reports,
                   loaded>>

\* a driver that submits without looking at is_running
RcSubmitAlways(m) ==
    /\ m.pc = "rc_submit"
    /\ LET u == driver.idx
           last == u = NumUsers
           m2 == IF last THEN [m EXCEPT !.pc = "rc_wait"] ELSE m
           t == Thread("task", u, driver.round, "queued")
       IN /\ driver' = [driver EXCEPT !.futures = Append(@, u),
                                      !.idx = IF last THEN 1 ELSE u + 1]
          /\ threads' = ((threads (-) SetToBag({m})) (+) SetToBag({m2}))
                          (+) SetToBag({t})
    /\ UNCHANGED <<now, pool_free, blocked_sites, sites_visited,
                   blocked_sites_cache, cache_expiry, stats, is_running, reports,
                   loaded>>

\* for user_id in user_simulators: if self.is_running: submit, append.
RcSubmit(m) ==
    /\ m.pc = "rc_submit"
    /\ LET u == driver.idx
           last == u = NumUsers
           m2 == IF last THEN [m EXCEPT !.pc = "rc_wait"] ELSE m
           t == Thread("task", u, driver.round, "queued")
       IN /\ driver' = [driver EXCEPT
                          !.futures = IF is_running THEN Append(@, u) ELSE @,
                          !.idx = IF last THEN 1 ELSE u + 1]
          /\ threads' = ((threads (-) SetToBag({m})) (+) SetToBag({m2}))
                          (+) (IF is_running THEN SetToBag({t}) ELSE EmptyBag)
    /\ UNCHANGED <<now, pool_free, blocked_sites, sites_visited,
                   blocked_sites_cache, cache_expiry, stats, is_running, reports,
                   loaded>>

\* the task behind the future the driver is waiting on
Waited == CHOOSE t \in Tasks :
             t.rnd = driver.round /\ t.user = driver.futures[driver.idx]

\* future.result(timeout=10) returns: the task is done.
RcWaitDone(m) ==
    /\ m.pc = "rc_wait"
    /\ driver.idx <= Len(driver.futures)
    /\ Waited.pc = "done"
    /\ driver' = [driver EXCEPT !.idx = @ + 1]
    /\ Remove(Waited)
    /\ UNCHANGED <<now, pool_free, blocked_sites, sites_visited,
                   blocked_sites_cache, cache_expiry, stats, is_running, reports,
                   loaded>>

\* the running tasks of the round whose futures come later in the wait loop
StillToWait == {t \in Executing : Awaited(t) /\ t # Waited}

\* Time passes while a task runs.  A task that was running when a wait on an
\* earlier future timed out may have started as early as its submission, 10
\* seconds or more before that instant: from then on its running time can
\* pass the 10 seconds of the per-task timeout at any moment.
Overrun(t) ==
    /\ t \in Executing
    /\ t.spans
    /\ ~t.overdue
    /\ Replace(t, [t EXCEPT !.overdue = TRUE])
    /\ UNCHANGED <<now, pool_free, blocked_sites, sites_visited,
                   blocked_sites_cache, cache_expiry, stats, is_running, driver,
                   reports, loaded>>

\* a wait without a timeout: future.result() never gives up
RcWaitForever(m) ==
    /\ FALSE
    /\ UNCHANGED vars

\* future.result(timeout=10) raises TimeoutError: the task has not finished
\* in 10 seconds.  The handler logs it; the task keeps running.
RcWaitTimeout(m) ==
    /\ m.pc = "rc_wait"
    /\ driver.idx <= Len(driver.futures)
    /\ Waited.pc # "done"
    /\ driver' = [driver EXCEPT !.idx = @ + 1]
    /\ LET touched == StillToWait \cup {Waited}
           Mark(t) == IF t = Waited
                      THEN [t EXCEPT !.abandoned = TRUE, !.spans = FALSE]
                      ELSE [t EXCEPT !.spans = TRUE]
       IN threads' = (threads (-) SetToBag(touched))
                        (+) SetToBag({Mark(t) : t \in touched})
    /\ UNCHANGED <<now, pool_free, blocked_sites, sites_visited,
                   blocked_sites_cache, cache_expiry, stats, is_running, reports,
                   loaded>>

\* _report_statistics reads the counters
Snapshot == stats

\* a driver that goes on to the report without waiting for its futures
RcReportEarly(m) ==
    /\ m.pc = "rc_wait"
    /\ UNCHANGED <<reports, driver>>
    /\ Replace(m, [m EXCEPT !.pc = "rc_sleep"])
    /\ UNCHANGED <<now, pool_free, blocked_sites, sites_visited,
                   blocked_sites_cache, cache_expiry, stats, is_running, loaded>>

\* if now - last_stats_report > stats_interval: _report_statistics()
RcReport(m) ==
    /\ m.pc = "rc_wait"
    /\ driver.idx > Len(driver.futures)
    /\ IF now - driver.last_stats_report > StatsInterval
       THEN /\ reports' = [reports EXCEPT !.n = 1, !.last = Snapshot]
            /\ driver' = [driver EXCEPT !.last_stats_report = now]
       ELSE UNCHANGED <<reports, driver>>
    /\ Replace(m, [m EXCEPT !.pc = "rc_sleep"])
    /\ UNCHANGED <<now, pool_free, blocked_sites, sites_visited,
                   blocked_sites_cache, cache_expiry, stats, is_running, loaded>>

\* time.sleep(random.uniform(min_visit_interval, max_visit_interval))
RcSleep(m) ==
    /\ m.pc = "rc_sleep"
    /\ Replace(m, [m EXCEPT !.pc = "rc_loop"])
    /\ UNCHANGED <<now, pool_free, blocked_sites, sites_visited,
                   blocked_sites_cache, cache_expiry, stats, is_running, driver,
                   reports, loaded>>

\* an executor shut down without waiting for its running tasks
RcShutdownNoWait(m) ==
    /\ m.pc = "rc_shutdown"
    /\ is_running' = FALSE
    /\ Replace(m, [m EXCEPT !.pc = "rc_final"])
    /\ UNCHANGED <<now, pool_free, blocked_sites, sites_visited,
                   blocked_sites_cache, cache_expiry, stats, driver, reports,
                   loaded>>

\* Leaving the with block: executor.shutdown(wait=True) returns once every
\* submitted task has run to its end.  Then self.is_running = False.
RcShutdown(m) ==
    /\ m.pc = "rc_shutdown"
    /\ Tasks = {}
    /\ is_running' = FALSE
    /\ Replace(m, [m EXCEPT !.pc = "rc_final"])
    /\ UNCHANGED <<now, pool_free, blocked_sites, sites_visited,
                   blocked_sites_cache, cache_expiry, stats, driver, reports,
                   loaded>>

\* _report_final_statistics: the report, then the statistics file.
RcFinal(m) ==
    /\ m.pc = "rc_final"
    /\ reports' = [reports EXCEPT !.n = 1, !.final = @ + 1, !.last = Snapshot]
    /\ Replace(m, [m EXCEPT !.pc = "stopped"])
    /\ UNCHANGED <<now, pool_free, blocked_sites, sites_visited,
                   blocked_sites_cache, cache_expiry, stats, is_running, driver,
                   loaded>>

\* a stop() that prints the final report itself
StopReports ==
    /\ is_running
    /\ is_running' = FALSE
    /\ reports' = [reports EXCEPT !.n = 1, !.final = @ + 1, !.last = Snapshot]
    /\ UNCHANGED <<now, threads, pool_free, blocked_sites, sites_visited,
                   blocked_sites_cache, cache_expiry, stats, driver, loaded>>

\* stop(), from the signal handler or another thread.
Stop ==
    /\ is_running
    /\ is_running' = FALSE
    /\ UNCHANGED <<now, threads, pool_free, blocked_sites, sites_visited,
                   blocked_sites_cache, cache_expiry, stats, driver, reports,
                   loaded>>

\* stop(), from the signal handler installed by __init__ or from another
\* thread, on an agent that has not begun to run: self.is_running = False.
StopBeforeRun(m) ==
    /\ m.kind = "main"
    /\ m.pc = "created"
    /\ is_running' = FALSE
    /\ Replace(m, [m EXCEPT !.early_stop = TRUE])
    /\ UNCHANGED <<now, pool_free, blocked_sites, sites_visited,
                   blocked_sites_cache, cache_expiry, stats, driver, reports,
                   loaded>>

\* run_continuous_simulation called on an agent whose earlier run has ended.
RunAgain(m) ==
    /\ m.kind = "main"
    /\ m.pc = "stopped"
    /\ is_running' = TRUE
    /\ Replace(m, CallUpdate([m EXCEPT !.ret = "rc_start", !.rnd = @ + 1]))
    /\ UNCHANGED <<now, pool_free, blocked_sites, sites_visited,
                   blocked_sites_cache, cache_expiry, stats, driver, reports,
                   loaded>>

\* run_single_batch of monitoring_agent.py: self.is_running = True, then the
\* first refresh.
RunSingleBatch(m) ==
    /\ m.kind = "main"
    /\ m.pc = "created"
    /\ is_running' = TRUE
    /\ Replace(m, CallUpdate([m EXCEPT !.ret = "sb_loop"]))
    /\ UNCHANGED <<now, pool_free, blocked_sites, sites_visited,
                   blocked_sites_cache, cache_expiry, stats, driver, reports,
                   loaded>>

\* run_single_batch of agent.py (the one setup.py runs): it starts with the
\* refresh and leaves is_running as it is.
RunSingleBatchMono(m) ==
    /\ m.kind = "main"
    /\ m.pc = "created"
    /\ Replace(m, CallUpdate([m EXCEPT !.ret = "sbm_loop"]))
    /\ UNCHANGED <<now, pool_free, blocked_sites, sites_visited,
                   blocked_sites_cache, cache_expiry, stats, is_running, driver,
                   reports, loaded>>

\* for _ in range(num_visits): simulate_user_session(random.choice(users)).
\* The call runs in the main thread; it is kept as a task the loop waits for.
SbVisit(m) ==
    /\ m.pc \in {"sb_loop", "sbm_loop"}
    /\ Tasks = {}
    /\ driver.idx < BatchVisits
    /\ driver' = [driver EXCEPT !.idx = @ + 1]
    /\ \E u \in Users :
         threads' = threads (+) SetToBag({Thread("task", u, 0, "queued")})
    /\ UNCHANGED <<now, pool_free, blocked_sites, sites_visited,
                   blocked_sites_cache, cache_expiry, stats, is_running, reports,
                   loaded>>

\* monitoring_agent.py after the loop: self.is_running = False, then
\* _report_statistics().
SbEnd(m) ==
    /\ m.pc = "sb_loop"
    /\ Tasks = {}
    /\ driver.idx = BatchVisits
    /\ is_running' = FALSE
    /\ reports' = [reports EXCEPT !.n = 1, !.last = Snapshot]
    /\ Replace(m, [m EXCEPT !.refreshed = "none", !.wrote = FALSE,
                            !.queries = 0, !.ret = "none", !.pc = "sb_done"])
    /\ UNCHANGED <<now, pool_free, blocked_sites, sites_visited,
                   blocked_sites_cache, cache_expiry, stats, driver, loaded>>

\* agent.py after the loop: _report_statistics().
SbmEnd(m) ==
    /\ m.pc = "sbm_loop"
    /\ Tasks = {}
    /\ driver.idx = BatchVisits
    /\ reports' = [reports EXCEPT !.n = 1, !.last = Snapshot]
    /\ Replace(m, [m EXCEPT !.refreshed = "none", !.wrote = FALSE,
                            !.queries = 0, !.ret = "none", !.pc = "sb_done"])
    /\ UNCHANGED <<now, pool_free, blocked_sites, sites_visited,
                   blocked_sites_cache, cache_expiry, stats, is_running, driver,
                   loaded>>

\* ------------------------------------------------- concurrent callers
\* Any number of threads may call execute_query at once; a caller here
\* issues the SELECT of the cache refresh, over and over.
CallerCall(r) ==
    /\ r.kind = "caller"
    /\ r.pc = "caller_idle"
    /\ Replace(r, [r EXCEPT !.pc = "eq_acquire", !.query = "select",
                             !.err = "none", !.results = {}, !.waited = FALSE])
    /\ UNCHANGED <<now, pool_free, blocked_sites, sites_visited,
                   blocked_sites_cache, cache_expiry, stats, is_running, driver,
                   reports, loaded>>

\* One thread calls is_site_blocked, over and over.
ReaderCall(r) ==
    /\ r.kind = "reader"
    /\ r.pc = "reader_idle"
    /\ \E site \in Sites :
         Replace(r, [Thread("reader", 0, 0, "isb_check") EXCEPT !.site = site])
    /\ UNCHANGED <<now, pool_free, blocked_sites, sites_visited,
                   blocked_sites_cache, cache_expiry, stats, is_running, driver,
                   reports, loaded>>

NoDriver ==
    [round |-> 0, futures |-> <<>>, idx |-> 0, start_time |-> 0,
     last_stats_report |-> 0]

NoReports == [n |-> 0, final |-> 0, last |-> [total_visits |-> 0,
              blocked_visits |-> 0, allowed_visits |-> 0, errors |-> 0]]

InitAgent ==
    /\ now = 0
    /\ pool_free = PoolSize
    /\ blocked_sites \in SUBSET AllRows
    /\ sites_visited = [allowed |-> 0, blocked |-> 0]
    /\ blocked_sites_cache = {}
    /\ cache_expiry = 0
    /\ stats = [total_visits |-> 0, blocked_visits |-> 0, allowed_visits |-> 0,
                errors |-> 0]
    /\ is_running = FALSE
    /\ driver = NoDriver
    /\ reports = NoReports
    /\ loaded = [snapshot |-> {}, any |-> FALSE, done |-> {}, at |-> 0,
                 ok |-> FALSE]

InitPool ==
    /\ InitAgent
    /\ blocked_sites = {Row("a.com")}
    /\ threads = [x \in {Thread("caller", 0, 0, "caller_idle")} |-> NumCallers]

NextPool ==
    \/ Tick
    \/ \E r \in AllThreads : CallerCall(r)
    \/ \E r \in AllThreads : EqAcquire(r)
    \/ \E r \in AllThreads : EqExecute(r)
    \/ \E r \in AllThreads : EqFinally(r)

SpecPool == InitPool /\ [][NextPool]_vars

\* The cache with a single caller, while time passes and the blocked list
\* is edited.
InitCache ==
    /\ InitAgent
    /\ threads = SetToBag({Thread("reader", 0, 0, "reader_idle")})

NextCache ==
    \/ Tick
    \/ StoreEdit
    \/ \E r \in AllThreads : ReaderCall(r)
    \/ \E r \in AllThreads : IsbCheck(r)
    \/ \E r \in AllThreads : IsbMember(r)
    \/ \E r \in AllThreads : EqAcquire(r)
    \/ \E r \in AllThreads : EqExecute(r)
    \/ \E r \in AllThreads : EqFinally(r)
    \/ \E r \in AllThreads : UpdExcept(r)
    \/ \E r \in AllThreads : UpdInstall(r)
    \/ \E r \in AllThreads : UpdExpiryEval(r)
    \/ \E r \in AllThreads : UpdExpiryStore(r)

SpecCache == InitCache /\ [][NextCache]_vars

Init ==
    /\ InitAgent
    /\ threads = SetToBag({MainThread})

\* The agent's methods called one after the other on the same agent: a run,
\* stop(), and a run again.  Every task ends within its timeout.
NextLife ==
    \/ Stop
    \/ \E r \in AllThreads : RunAgain(r) /\ r.rnd + 1 < MaxRuns
    \/ \E r \in AllThreads : EqAcquire(r)
    \/ \E r \in AllThreads : EqExecute(r)
    \/ \E r \in AllThreads : EqFinally(r)
    \/ \E r \in AllThreads : UpdExcept(r)
    \/ \E r \in AllThreads : UpdInstall(r)
    \/ \E r \in AllThreads : UpdExpiryEval(r)
    \/ \E r \in AllThreads : UpdExpiryStore(r)
    \/ \E r \in AllThreads : IsbCheck(r)
    \/ \E r \in AllThreads : IsbMember(r)
    \/ \E r \in AllThreads : TaskStart(r)
    \/ \E r \in AllThreads : LogTotalRead(r)
    \/ \E r \in AllThreads : LogTotalWrite(r)
    \/ \E r \in AllThreads : LogKindRead(r)
    \/ \E r \in AllThreads : LogKindWrite(r)
    \/ \E r \in AllThreads : LogErrRead(r)
    \/ \E r \in AllThreads : LogErrWrite(r)
    \/ \E r \in AllThreads : RunContinuous(r)
    \/ \E r \in AllThreads : RcStart(r)
    \/ \E r \in AllThreads : RcLoop(r) /\ driver'.round <= MaxRounds
    \/ \E r \in AllThreads : RcSubmit(r)
    \/ \E r \in AllThreads : RcWaitDone(r)
    \/ \E r \in AllThreads : RcReport(r)
    \/ \E r \in AllThreads : RcSleep(r)
    \/ \E r \in AllThreads : RcShutdown(r)
    \/ \E r \in AllThreads : RcFinal(r)

SpecLife == Init /\ [][NextLife]_vars

\* Single-batch mode on a freshly constructed agent, in either implementation.
NextBatch ==
    \/ Tick
    \/ StoreEdit
    \/ \E r \in AllThreads : RunSingleBatch(r)
    \/ \E r \in AllThreads : RunSingleBatchMono(r)
    \/ \E r \in AllThreads : SbVisit(r)
    \/ \E r \in AllThreads : SbEnd(r)
    \/ \E r \in AllThreads : SbmEnd(r)
    \/ \E r \in AllThreads : EqAcquire(r)
    \/ \E r \in AllThreads : EqExecute(r)
    \/ \E r \in AllThreads : EqFinally(r)
    \/ \E r \in AllThreads : UpdExcept(r)
    \/ \E r \in AllThreads : UpdInstall(r)
    \/ \E r \in AllThreads : UpdExpiryEval(r)
    \/ \E r \in AllThreads : UpdExpiryStore(r)
    \/ \E r \in AllThreads : IsbCheck(r)
    \/ \E r \in AllThreads : IsbMember(r)
    \/ \E r \in AllThreads : TaskStart(r)
    \/ \E r \in AllThreads : LogTotalRead(r)
    \/ \E r \in AllThreads : LogTotalWrite(r)
    \/ \E r \in AllThreads : LogKindRead(r)
    \/ \E r \in AllThreads : LogKindWrite(r)
    \/ \E r \in AllThreads : LogErrRead(r)
    \/ \E r \in AllThreads : LogErrWrite(r)

SpecBatch == Init /\ [][NextBatch]_vars

\* A run in which stop() is not called and every task ends within its timeout.
Next ==
    \/ Tick
    \/ StoreEdit
    \/ \E r \in AllThreads : EqAcquire(r)
    \/ \E r \in AllThreads : EqExecute(r)
    \/ \E r \in AllThreads : EqFinally(r)
    \/ \E r \in AllThreads : UpdExcept(r)
    \/ \E r \in AllThreads : UpdInstall(r)
    \/ \E r \in AllThreads : UpdExpiryEval(r)
    \/ \E r \in AllThreads : UpdExpiryStore(r)
    \/ \E r \in AllThreads : IsbCheck(r)
    \/ \E r \in AllThreads : IsbMember(r)
    \/ \E r \in AllThreads : TaskStart(r)
    \/ \E r \in AllThreads : LogTotalRead(r)
    \/ \E r \in AllThreads : LogTotalWrite(r)
    \/ \E r \in AllThreads : LogKindRead(r)
    \/ \E r \in AllThreads : LogKindWrite(r)
    \/ \E r \in AllThreads : LogErrRead(r)
    \/ \E r \in AllThreads : LogErrWrite(r)
    \/ \E r \in AllThreads : RunContinuous(r)
    \/ \E r \in AllThreads : RcStart(r)
    \/ \E r \in AllThreads : RcLoop(r) /\ driver'.round <= TimedRounds
    \/ \E r \in AllThreads : RcSubmit(r)
    \/ \E r \in AllThreads : RcWaitDone(r)
    \/ \E r \in AllThreads : RcReport(r)
    \/ \E r \in AllThreads : RcSleep(r)
    \/ \E r \in AllThreads : RcShutdown(r)
    \/ \E r \in AllThreads : RcFinal(r)

Spec == Init /\ [][Next]_vars

\* A run that is over within one tick, while the blocked list is not edited.
NextStats ==
    \/ Stop
    \/ \E r \in AllThreads : EqAcquire(r)
    \/ \E r \in AllThreads : EqExecute(r)
    \/ \E r \in AllThreads : EqFinally(r)
    \/ \E r \in AllThreads : UpdExcept(r)
    \/ \E r \in AllThreads : UpdInstall(r)
    \/ \E r \in AllThreads : UpdExpiryEval(r)
    \/ \E r \in AllThreads : UpdExpiryStore(r)
    \/ \E r \in AllThreads : IsbCheck(r)
    \/ \E r \in AllThreads : IsbMember(r)
    \/ \E r \in AllThreads : TaskStart(r)
    \/ \E r \in AllThreads : LogTotalRead(r)
    \/ \E r \in AllThreads : LogTotalWrite(r)
    \/ \E r \in AllThreads : LogKindRead(r)
    \/ \E r \in AllThreads : LogKindWrite(r)
    \/ \E r \in AllThreads : LogErrRead(r)
    \/ \E r \in AllThreads : LogErrWrite(r)
    \/ \E r \in AllThreads : RunContinuous(r)
    \/ \E r \in AllThreads : RcStart(r)
    \/ \E r \in AllThreads : RcLoop(r) /\ driver'.round <= MaxRounds
    \/ \E r \in AllThreads : RcSubmit(r)
    \/ \E r \in AllThreads : RcWaitDone(r)
    \/ \E r \in AllThreads : RcWaitTimeout(r)
    \/ \E r \in AllThreads : RcReport(r)
    \/ \E r \in AllThreads : RcSleep(r)
    \/ \E r \in AllThreads : RcShutdown(r)
    \/ \E r \in AllThreads : RcFinal(r)


SpecStats == Init /\ [][NextStats]_vars

\* One round of the continuous run with the running time of the tasks
\* observed.
NextTimed ==
    \/ NextStats /\ driver'.round <= TimedRounds
    \/ \E r \in AllThreads : Overrun(r)

SpecTimed == Init /\ [][NextTimed]_vars

\* One round of the continuous run on an agent that may have been told to
\* stop before the run began.
NextStopFirst ==
    \/ NextStats /\ driver'.round <= TimedRounds
    \/ \E r \in AllThreads : StopBeforeRun(r)

SpecStopFirst == Init /\ [][NextStopFirst]_vars

\* The main thread keeps running, and future.result(timeout=10) returns or
\* raises within its timeout.  Nothing is assumed of the tasks: a task may
\* hang at any statement.
DriverWaits ==
    \E r \in AllThreads : RcWaitDone(r) \/ RcWaitTimeout(r) \/ RcReport(r)

SpecStatsFair == SpecStats /\ WF_vars(DriverWaits)

\* The main thread keeps running at every statement of
\* run_continuous_simulation whenever it is not blocked.  Nothing is assumed of
\* the tasks.
MainSteps ==
    \E r \in AllThreads :
        \/ r.kind = "main" /\ (EqAcquire(r) \/ EqExecute(r) \/ EqFinally(r))
        \/ r.kind = "main" /\ (UpdExcept(r) \/ UpdInstall(r))
        \/ r.kind = "main" /\ (UpdExpiryEval(r) \/ UpdExpiryStore(r))
        \/ RcStart(r)
        \/ RcLoop(r) /\ driver'.round <= MaxRounds
        \/ RcSubmit(r)
        \/ RcWaitDone(r)
        \/ RcWaitTimeout(r)
        \/ RcReport(r)
        \/ RcSleep(r)
        \/ RcShutdown(r)
        \/ RcFinal(r)

SpecMainFair == SpecStats /\ WF_vars(MainSteps)

\* ------------------------------------------------------------- claims
InExecuteQuery(r) == r.pc \in {"eq_acquire", "eq_execute", "eq_finally"}

\* the thread is inside update_blocked_sites_cache
InRefresh(r) ==
    /\ r.kind # "caller"
    /\ \/ InExecuteQuery(r) /\ r.query = "select"
       \/ r.pc \in {"upd_install", "upd_expiry_eval", "upd_expiry_store"}

\* is_site_blocked has just returned its answer to the task
Answered(r) == r.kind = "task" /\ r.pc = "eq_acquire" /\ r.query = "insert"

\* C1: refresh is single-flighted: two update_blocked_sites_cache calls are
\* never in flight at the same time.
C1_SingleFlight == Copies({r \in AllThreads : InRefresh(r)}) <= 1

\* C2: every statistics report shows total_visits = allowed_visits +
\* blocked_visits.
C2_ReportConsistent ==
    reports.n > 0 =>
        reports.last.total_visits =
            reports.last.allowed_visits + reports.last.blocked_visits

\* C3: no lost updates: when the run is over the counters equal the number
\* of visits inserted, in total and per status.
C3_NoLostUpdates ==
    Main.pc = "stopped" =>
        /\ stats.total_visits = sites_visited.allowed + sites_visited.blocked
        /\ stats.allowed_visits = sites_visited.allowed
        /\ stats.blocked_visits = sites_visited.blocked

\* C4: no step lowers a statistics counter.
C4_CountersMonotone ==
    [][\A k \in DOMAIN stats : stats'[k] >= stats[k]]_vars

\* C5: the connections borrowed at one time never exceed the pool size.
C5_BorrowedWithinPool == Copies({r \in AllThreads : r.conn}) <= PoolSize

\* C5 witness: the pool is exhausted and a further acquire was refused.
C5_Witness ==
    /\ Copies({r \in AllThreads : r.conn}) = PoolSize
    /\ \E r \in AllThreads : r.pc = "caller_idle" /\ r.err = "PoolError"

\* C6: an acquire on an exhausted pool blocks: it fails with the
\* pool-exhausted error only after time has passed, never at once.
C6_AcquireBlocks == \A r \in AllThreads : r.err = "PoolError" => r.waited

\* C7: execute_query gives back the connection it borrowed, whether it
\* returns or raises: only threads inside execute_query hold connections, and
\* the pool misses exactly those.
C7_ReleasedOnReturn ==
    /\ \A r \in AllThreads : r.conn => r.pc \in {"eq_execute", "eq_finally"}
    /\ Borrowed = Copies({r \in AllThreads : r.pc \in {"eq_execute", "eq_finally"}})

\* C7 witness: a call has propagated a query error and holds no connection,
\* while other calls are in flight.
C7_Witness ==
    /\ \E r \in AllThreads :
          r.pc = "caller_idle" /\ r.err = "QueryError" /\ ~r.conn
    /\ Borrowed > 0

\* the step in which r's refresh fails
RefreshFails(r) ==
    /\ r.pc = "upd_install"
    /\ r.err # "none"
    /\ CopiesIn(r, threads') < CopiesIn(r, threads)

\* C8: a refresh that fails leaves the snapshot and the expiry as they were:
\* the failing call has assigned neither, and its last step changes neither.
C8_FailedRefreshFrame ==
    /\ [](\A r \in AllThreads : r.refreshed = "failed" => ~r.wrote)
    /\ [][\A r \in AllThreads : RefreshFails(r) =>
             /\ blocked_sites_cache' = blocked_sites_cache
             /\ cache_expiry' = cache_expiry]_vars

\* C8 witness: a refresh has failed while a loaded snapshot was cached.
C8_Witness ==
    \E r \in AllThreads :
        /\ r.refreshed = "failed"
        /\ blocked_sites_cache # {}
        /\ cache_expiry > 0

\* C9: is_site_blocked answers even when its refresh failed, and the answer
\* is membership in the snapshot last loaded.
C9_StaleAnswer ==
    \A r \in AllThreads :
        /\ r.pc = "isb_member" => r.err = "none"
        /\ (Answered(r) /\ r.refreshed = "failed") => r.is_blocked = r.expect

\* C9 witness: after a failed refresh the answer is "blocked", from the
\* snapshot loaded before.
C9_Witness ==
    \E r \in AllThreads : Answered(r) /\ r.refreshed = "failed" /\ r.is_blocked

\* C10: while now <= t + TTL after a refresh that succeeded at t,
\* is_site_blocked answers what that refresh read from the store's blocked
\* list.
C10_AnswerFromRefresh ==
    \A r \in AllThreads : (Answered(r) /\ r.fresh) => r.is_blocked = r.due

\* is_site_blocked has returned to the single caller
ReaderAnswered(r) == r.kind = "reader" /\ r.pc = "reader_idle" /\ r.site # "none"

\* C11: with a single caller, an is_site_blocked call that finds
\* now <= cache_expiry issues no store query; one that finds now > cache_expiry
\* issues exactly one refresh and, when that refresh succeeds, answers from
\* the snapshot it installed.
C11_RefreshOnExpiryOnly ==
    \A r \in AllThreads :
        ReaderAnswered(r) =>
            /\ ~r.expired => (r.queries = 0 /\ r.refreshed = "none")
            /\ r.expired => (r.queries = 1 /\ r.refreshed # "none")
            /\ (r.expired /\ r.refreshed = "ok") => r.is_blocked = r.due

\* C11 witness: after the TTL a call refreshed once and answered "blocked"
\* from the snapshot just installed.
C11_Witness ==
    \E r \in AllThreads :
        /\ ReaderAnswered(r)
        /\ r.expired /\ r.queries = 1 /\ r.refreshed = "ok"
        /\ r.is_blocked
        /\ now > TTL

\* the task has taken a step: it is at another statement, or gone
Steps(t) ==
    \A u \in BagToSet(threads') :
        ~(u.kind = t.kind /\ u.user = t.user /\ u.rnd = t.rnd /\ u.pc = t.pc)

\* C12: round barrier: when the driver is in round N+1, every task of round
\* N still around is one the driver has timed out; the others have finished.
C12_RoundBarrier ==
    \A t \in Tasks : t.rnd < driver.round => t.abandoned

\* C12 witness: a task of round 2 runs while a timed-out task of round 1 is
\* still running.
C12_Witness ==
    \E t1, t2 \in Executing :
        t1.rnd = 1 /\ t1.abandoned /\ t2.rnd = 2 /\ driver.round = 2

\* C13: a round task the driver has timed out is counted as an error: when
\* the driver has left the waits of a round in which it timed a task out, the
\* errors counter is at least one.
C13_TimeoutCounted ==
    (Main.pc = "rc_sleep" /\ \E t \in Tasks : t.abandoned) => stats.errors >= 1

\* C14: the late result of a timed-out task is discarded: no step of a task
\* the driver has timed out changes total_visits, allowed_visits or
\* blocked_visits.
C14_LateResultDiscarded ==
    [][\A t \in Tasks : (t.abandoned /\ Steps(t)) =>
          /\ stats'.total_visits = stats.total_visits
          /\ stats'.allowed_visits = stats.allowed_visits
          /\ stats'.blocked_visits = stats.blocked_visits]_vars

\* C15: every round completes: a driver waiting for the tasks of a round
\* gets to the pacing sleep of that round, even if a task never finishes.
C15_RoundCompletes == (Main.pc = "rc_wait") ~> (Main.pc = "rc_sleep")

\* C15 witness: the driver is at the sleep of a round one of whose tasks has
\* not finished.
C15_Witness ==
    /\ Main.pc = "rc_sleep"
    /\ \E t \in Executing : t.rnd = driver.round /\ t.abandoned

\* C16: run_single_batch(N) on a fresh agent attempts N visits and ends
\* with total_visits = N - errors.
C16_BatchCounts ==
    Main.pc = "sb_done" => stats.total_visits = BatchVisits - stats.errors

\* C17: the final report is emitted exactly once per run, on the transition
\* to Stopped: none before the run has stopped, one from then on.
C17_FinalReportOnce ==
    reports.final = IF Main.pc = "stopped" THEN 1 ELSE 0

\* C17 witness: a run ended by stop() has stopped after logging a visit, and
\* its final report is out.
C17_Witness ==
    Main.pc = "stopped" /\ reports.final = 1 /\ reports.last.total_visits > 0

\* stop() has been called and run_continuous_simulation has not yet left its
\* executor
Stopping == ~is_running /\ Main.pc \notin {"created", "rc_final", "stopped"}

C19_FailureCountedOnce ==
    [][\A t \in Tasks : (t.pc = "st_err_wr" /\ Steps(t)) =>
          /\ stats'.errors = stats.errors + 1
          /\ stats'.total_visits = stats.total_visits
          /\ stats'.allowed_visits = stats.allowed_visits
          /\ stats'.blocked_visits = stats.blocked_visits]_vars

\* C20: Stopped is terminal: no step makes a stopped agent Running again.
C20_StoppedIsTerminal ==
    [][Main.pc = "stopped" => ~is_running']_vars

\* C21: every run, single-batch or continuous, has written the final report
\* once when it has ended.
C21_FinalArtifactOnce ==
    Main.pc \in {"stopped", "sb_done"} => reports.final = 1

\* C22: tasks of different rounds never execute at the same time.
C22_RoundsDoNotOverlap ==
    \A t1, t2 \in Executing : t1.rnd = t2.rnd

\* C24: cache_expiry never decreases.
C24_ExpiryMonotone == [][cache_expiry' >= cache_expiry]_vars

\* C25: an execution that succeeded is committed before its connection is
\* released.
C25_CommittedBeforeRelease ==
    \A r \in AllThreads :
        (r.pc = "eq_finally" /\ r.err = "none") => r.txn = "committed"

\* C26: a connection on which execution failed is discarded: the release
\* step of a failed execute_query does not put it back in the pool.
C26_FailedHandleDiscarded ==
    [][\A r \in AllThreads :
          (/\ r.pc = "eq_finally"
           /\ r.err # "none"
           /\ CopiesIn(r, threads') < CopiesIn(r, threads))
          => pool_free' = pool_free]_vars

\* C27: the driver does not go to the inter-round sleep when stop() was
\* called before the end of the round.
C27_NoSleepWhenStopping ==
    [][(Main.pc = "rc_wait" /\ ~is_running) =>
          \A u \in BagToSet(threads') : u.kind = "main" => u.pc # "rc_sleep"]_vars

\* C29: when the refresh triggered by a task's is_site_blocked call has
\* failed, the errors counter has been incremented by the time the call
\* returns.
C29_RefreshFailureCounted ==
    \A t \in Tasks :
        (Answered(t) /\ t.refreshed = "failed") => stats.errors >= 1

\* C30: a task that starts executing after stop was requested returns at
\* once: its future is done (or already dropped), no visit was generated, no
\* connection was taken, and the cache, the store and every statistics counter
\* are as they were.
C30_StopCheckedAtTaskStart ==
    [][\A t \in Tasks :
          (t.pc = "queued" /\ ~is_running /\ Steps(t)) =>
             /\ \A u \in BagToSet(threads') :
                   (u.kind = "task" /\ u.user = t.user /\ u.rnd = t.rnd) =>
                      u = Finished(t)
             /\ UNCHANGED <<stats, sites_visited, pool_free, blocked_sites,
                            blocked_sites_cache, cache_expiry>>]_vars

\* a task of a stopped run is done and no counter has moved
C30_Witness ==
    /\ ~is_running
    /\ \E t \in Tasks : t.pc = "done"
    /\ stats.total_visits = 0
    /\ stats.errors = 0
    /\ \A k \in DOMAIN sites_visited : sites_visited[k] = 0

\* C28: once stop was requested and every task still in flight is a running
\* task the driver has timed out, the run reaches Stopped (with its final
\* report) whether or not those tasks ever finish.
C28_ShutdownIgnoresAbandoned ==
    (Stopping /\ \A t \in Tasks : t.abandoned /\ t \in Executing) ~>
        (Main.pc = "stopped" /\ reports.final = 1)

\* C23: a task that has run for more than the per-task timeout is never
\* taken by the driver as a task that completed in time: when it ends it has
\* been timed out (abandoned), so no such task is left done with its future
\* still to be collected.
C23_OverdueAbandoned ==
    \A t \in Tasks : (t.overdue /\ t.pc = "done") => t.abandoned

\* C31: a visit whose insert has failed is counted in errors and gets no
\* second attempt: its task goes on to the errors increment and ends, it is
\* never back at the insert nor back in the executor's queue, and its
\* increment raises the errors counter.
C31_FailedInsertCountedNotRetried ==
    [][\A t \in Tasks :
          (t.query = "insert" /\ t.err # "none" /\ Steps(t)) =>
             /\ \A u \in BagToSet(threads') :
                   (u.kind = "task" /\ u.user = t.user /\ u.rnd = t.rnd) =>
                      u.pc \in {"eq_finally", "log_after", "st_err_wr", "done"}
             /\ t.pc = "st_err_wr" => stats'.errors > stats.errors]_vars

\* C32: is_site_blocked answers by the cache content at the lookup; the row
\* inserted for the visit has status 'blocked' exactly when that answer was
\* true, and the kind counter written after a persisted visit is
\* blocked_visits for a blocked visit, allowed_visits otherwise, the other one
\* being left alone.
C32_ClassificationConsistent ==
    [][\A t \in Tasks :
          Steps(t) =>
             /\ t.pc = "isb_member" =>
                   \A u \in BagToSet(threads') :
                      (u.kind = "task" /\ u.user = t.user /\ u.rnd = t.rnd) =>
                         u.is_blocked = (t.site \in blocked_sites_cache)
             /\ (t.pc = "eq_execute" /\ t.query = "insert") =>
                   /\ t.is_blocked =>
                         sites_visited'.allowed = sites_visited.allowed
                   /\ ~t.is_blocked =>
                         sites_visited'.blocked = sites_visited.blocked
             /\ t.pc = "st_kind_wr" =>
                   /\ t.is_blocked =>
                         /\ stats'.blocked_visits = t.tmp + 1
                         /\ stats'.allowed_visits = stats.allowed_visits
                   /\ ~t.is_blocked =>
                         /\ stats'.allowed_visits = t.tmp + 1
                         /\ stats'.blocked_visits = stats.blocked_visits]_vars

\* one visit was persisted and counted as blocked, another as allowed
C32_Witness ==
    /\ sites_visited.blocked >= 1
    /\ sites_visited.allowed >= 1
    /\ stats.blocked_visits >= 1
    /\ stats.allowed_visits >= 1

\* the inserts into sites_visited that have succeeded so far
Inserted == sites_visited.allowed + sites_visited.blocked

\* C33: total_visits never exceeds the number of inserts that have succeeded.
C33_StatsBehindStore == stats.total_visits <= Inserted

\* visits have been counted, and an insert that succeeded is not counted yet
C33_Witness ==
    /\ stats.total_visits >= 1
    /\ stats.total_visits < Inserted
    /\ \E t \in Tasks : t.pc = "st_total_wr"

\* C34: when the refresh of an is_site_blocked call that found the cache
\* expired has failed, the cache is still expired, so that the next
\* is_site_blocked call refreshes again: at the return of the failed
\* update_blocked_sites_cache, now > cache_expiry.
C34_ExpiredAfterFailedRefresh ==
    [][\A r \in AllThreads :
          (r.expired /\ RefreshFails(r)) => now' > cache_expiry']_vars

\* the tasks that hold a connection of the pool
Holders == {t \in Tasks : t.conn}

\* the driver is between the first submit of a round and the end of the loop
InRounds == Main.pc \in {"rc_loop", "rc_submit", "rc_wait", "rc_sleep"}

\* C35: while rounds run, every borrowed connection is held by an executing
\* task, one per task at most, and the executing tasks are never more than
\* the workers of the executor (one per user).
C35_BorrowedWithinWorkers ==
    InRounds =>
        /\ Holders \subseteq Executing
        /\ Borrowed = Cardinality(Holders)
        /\ Cardinality(Executing) <= NumUsers

\* a task that has refreshed the cache is about to acquire the connection of
\* its insert and holds none, while the other task holds one
C35_Witness ==
    /\ InRounds
    /\ Borrowed = 1
    /\ \E t \in Executing :
          /\ t.pc = "eq_acquire" /\ t.query = "insert"
          /\ t.refreshed = "ok"
          /\ ~t.conn
    /\ \E o \in Holders : o.query = "insert"

\* C36: once the final report of the continuous run is out, no task is left
\* and the counters are those of the report, for good.
C36_FinalReportIsLast ==
    reports.final >= 1 => (Tasks = {} /\ stats = reports.last)

\* the run has stopped and its final report shows visits and errors
C36_Witness ==
    /\ Main.pc = "stopped"
    /\ reports.final = 1
    /\ stats.total_visits >= 1
    /\ stats.errors >= 1

\* C37: a run of an agent that was told to stop before the run began
\* executes no round: the driver never enters a round and no task is
\* submitted.
C37_EarlyStopHonoured ==
    Main.early_stop => (driver.round = 0 /\ Tasks = {})

\* C38: run_single_batch behaves the same in agent.py and in
\* monitoring_agent.py: in either, is_running is True while the batch loop
\* runs and False after it, and every one of the BatchVisits visits has been
\* attempted (inserted or counted as an error) when the batch is done.
C38_BatchEquivalent ==
    /\ Main.pc \in {"sb_loop", "sbm_loop"} => is_running
    /\ Main.pc = "sb_done" =>
          (~is_running /\ Inserted + stats.errors = BatchVisits)

====
